---- MODULE Spec2Model ----
(***************************************************************************)
(* Model of the fraud-detection notebook starter_code-2.ipynb: the         *)
(* feature_engineering function and the cells that run the pipeline        *)
(* load -> feature engineering -> SMOTE -> split -> scale -> fit ->         *)
(* evaluate -> predict -> write submission.                                *)
(*                                                                         *)
(* Representation.  A DataFrame is a record [cols, rows]: cols is the      *)
(* sequence of column names in column order, rows the sequence of rows in  *)
(* row order, each row a function from column name to cell.  A float cell  *)
(* is an exact rational <<n, d>> (d > 0, lowest terms); <<1, 0>> and       *)
(* <<-1, 0>> are +inf and -inf, and <<>> is NaN.  Raw categorical cells    *)
(* are integers ordered as the strings they stand for; a date is           *)
(* <<year, month, day>> and a time of day <<hour, minute, second>>.        *)
(***************************************************************************)
EXTENDS Integers, Sequences, FiniteSets, TLC

(***************************************************************************)
(* Floats as exact rationals                                               *)
(***************************************************************************)
NaN == <<>>

Abs(n) == IF n < 0 THEN 0 - n ELSE n

RECURSIVE GCD(_, _)
GCD(a, b) == IF b = 0 THEN a ELSE GCD(b, a % b)

RNorm(n, d) ==
    LET g == GCD(Abs(n), d)
    IN  IF n >= 0 THEN <<n \div g, d \div g>>
                  ELSE <<0 - (Abs(n) \div g), d \div g>>

R(n) == <<n, 1>>

IsFinite(a) == a # NaN /\ a[2] # 0

RAdd(a, b) ==
    IF ~IsFinite(a) \/ ~IsFinite(b) THEN NaN
    ELSE RNorm(a[1] * b[2] + b[1] * a[2], a[2] * b[2])

RSub(a, b) ==
    IF ~IsFinite(a) \/ ~IsFinite(b) THEN NaN
    ELSE RNorm(a[1] * b[2] - b[1] * a[2], a[2] * b[2])

RMul(a, b) ==
    IF ~IsFinite(a) \/ ~IsFinite(b) THEN NaN
    ELSE RNorm(a[1] * b[1], a[2] * b[2])

\* IEEE division as numpy does it: x/0 is +-inf, 0/0 is NaN.
RDiv(a, b) ==
    IF ~IsFinite(a) \/ ~IsFinite(b) THEN NaN
    ELSE IF b[1] = 0
         THEN IF a[1] = 0 THEN NaN ELSE IF a[1] > 0 THEN <<1, 0>> ELSE <<-1, 0>>
         ELSE IF b[1] > 0 THEN RNorm(a[1] * b[2], a[2] * b[1])
                          ELSE RNorm(0 - a[1] * b[2], a[2] * Abs(b[1]))

RNonNeg(a) == a # NaN /\ a[1] >= 0

RLess(a, b) == a[1] * b[2] < b[1] * a[2]

\* np.sqrt on the squares the inputs produce (perfect squares of integers).
RSqrt(a) ==
    IF ~IsFinite(a) THEN NaN
    ELSE R(CHOOSE r \in 0..a[1] : r * r = a[1])

RECURSIVE RSum(_)
RSum(s) == IF s = <<>> THEN R(0) ELSE RAdd(s[1], RSum(Tail(s)))

RMean(s) == RDiv(RSum(s), R(Len(s)))

(***************************************************************************)
(* DataFrames                                                              *)
(***************************************************************************)
Range(s) == {s[i] : i \in DOMAIN s}

HasCol(df, c) == c \in Range(df.cols)

NRows(df) == Len(df.rows)

Column(df, c) == [i \in 1..NRows(df) |-> df.rows[i][c]]

\* df[c] = vals : an existing column is replaced in place, a new one is appended.
SetCol(df, c, vals) ==
    [cols |-> IF HasCol(df, c) THEN df.cols ELSE Append(df.cols, c),
            rows |-> [i \in 1..NRows(df) |->
                        [k \in Range(df.cols) \cup {c} |->
                            IF k = c THEN vals[i] ELSE df.rows[i][k]]]]

\* df.drop(columns=cs) on a frame that has them all.
DropCols(df, cs) ==
    LET keep(c) == c \notin Range(cs)
        kept == SelectSeq(df.cols, keep)
    IN  [cols |-> kept,
                rows |-> [i \in 1..NRows(df) |->
                            [k \in Range(kept) |-> df.rows[i][k]]]]

\* df[cs] : the listed columns, in the listed order.
SelectCols(df, cs) ==
    [cols |-> cs,
            rows |-> [i \in 1..NRows(df) |-> [k \in Range(cs) |-> df.rows[i][k]]]]

NoErr == <<>>

KeyError(c) == <<"KeyError", c>>

Missing(df, cs) == {i \in DOMAIN cs : ~HasCol(df, cs[i])}

\* The first of the columns cs, in access order, that df lacks.
FirstMissing(df, cs) ==
    cs[CHOOSE i \in Missing(df, cs) : \A j \in Missing(df, cs) : i <= j]



\* The elements of a finite set of integers, ascending.
RECURSIVE SortedIdx(_)
SortedIdx(S) ==
    IF S = {} THEN <<>>
    ELSE LET m == CHOOSE a \in S : \A b \in S : a <= b
         IN  <<m>> \o SortedIdx(S \ {m})

(***************************************************************************)
(* State                                                                   *)
(***************************************************************************)
VARIABLES
    now_year,           \* the year pd.Timestamp('now') reads
    count_min_periods,  \* min_periods Rolling.count() uses when given none
    train_csv, test_csv,\* ./data/train.csv and ./data/test.csv as tables
    pc,                 \* the statement the notebook run is at
    err,                \* the exception that ended the run, or NoErr
    train, test,        \* the two DataFrames
    encoders,           \* the dict feature_engineering returned for train
    X, y, X_test_submission,
    X_smote, y_smote,
    X_train, X_val, y_train, y_val,
    scaler,
    model,
    y_pred, y_test_pred,
    submission_file,    \* ./data/fraud_submission2.csv, or None
    call                \* one call of feature_engineering, seen from its caller

vars == <<now_year, count_min_periods, train_csv, test_csv, pc, err, train, test, encoders,
          X, y, X_test_submission, X_smote, y_smote,
          X_train, X_val, y_train, y_val, scaler, model,
          y_pred, y_test_pred, submission_file, call>>

None == [none |-> TRUE]

(***************************************************************************)
(* feature_engineering                                                     *)
(***************************************************************************)
cat_cols == <<"category", "gender", "job", "state", "city", "merchant">>

drop_columns == <<"trans_date", "trans_time", "dob", "first", "last", "street">>

window == 3

unknown_value == -1

\* A frame of the function body: the DataFrame df names and the exception raised.
Ok(df) == [df |-> df, err |-> NoErr]

Raise(df, e) == [df |-> df, err |-> e]

\* Series.dt.dayofweek: Monday is 0 (Gregorian calendar).
DayOfWeek(date) ==
    LET t == <<0, 3, 2, 5, 0, 3, 5, 1, 4, 6, 2, 4>>
        yy == IF date[2] < 3 THEN date[1] - 1 ELSE date[1]
        sun0 == (yy + (yy \div 4) - (yy \div 100) + (yy \div 400)
                 + t[date[2]] + date[3]) % 7
    IN  (sun0 + 6) % 7

\* df['hour'] = pd.to_datetime(df['trans_time'], format='%H:%M:%S').dt.hour
StepHour(f) ==
    IF f.err # NoErr THEN f
    ELSE IF ~HasCol(f.df, "trans_time") THEN Raise(f.df, KeyError("trans_time"))
    ELSE Ok(SetCol(f.df, "hour",
                   [i \in 1..NRows(f.df) |-> R(f.df.rows[i]["trans_time"][1])]))

\* df['day_of_week'] = pd.to_datetime(df['trans_date']).dt.dayofweek
StepDayOfWeek(f) ==
    IF f.err # NoErr THEN f
    ELSE IF ~HasCol(f.df, "trans_date") THEN Raise(f.df, KeyError("trans_date"))
    ELSE Ok(SetCol(f.df, "day_of_week",
                   [i \in 1..NRows(f.df) |-> R(DayOfWeek(f.df.rows[i]["trans_date"]))]))

\* df['age'] = pd.Timestamp('now').year - pd.to_datetime(df['dob']).dt.year
StepAge(f) ==
    IF f.err # NoErr THEN f
    ELSE IF ~HasCol(f.df, "dob") THEN Raise(f.df, KeyError("dob"))
    ELSE Ok(SetCol(f.df, "age",
                   [i \in 1..NRows(f.df) |-> R(now_year - f.df.rows[i]["dob"][1])]))

\* df['distance'] = np.sqrt((lat - merch_lat)**2 + (long - merch_long)**2)
StepDistance(f) ==
    LET used == <<"lat", "merch_lat", "long", "merch_long">>
        dist(r) == LET dlat == RSub(r["lat"], r["merch_lat"])
                       dlong == RSub(r["long"], r["merch_long"])
                   IN  RSqrt(RAdd(RMul(dlat, dlat), RMul(dlong, dlong)))
    IN  IF f.err # NoErr THEN f
        ELSE IF Missing(f.df, used) # {}
             THEN Raise(f.df, KeyError(FirstMissing(f.df, used)))
        ELSE Ok(SetCol(f.df, "distance",
                       [i \in 1..NRows(f.df) |-> dist(f.df.rows[i])]))

\* AmtPerCapita without the + 1.
AmtPerCapita_no_offset(amt, city_pop) == RDiv(amt, city_pop)

\* df['amt_per_capita'] = df['amt'] / (df['city_pop'] + 1)
AmtPerCapita(amt, city_pop) == RDiv(amt, RAdd(city_pop, R(1)))

StepAmtPerCapita(f) ==
    LET used == <<"amt", "city_pop">>
    IN  IF f.err # NoErr THEN f
        ELSE IF Missing(f.df, used) # {}
             THEN Raise(f.df, KeyError(FirstMissing(f.df, used)))
        ELSE Ok(SetCol(f.df, "amt_per_capita",
                       [i \in 1..NRows(f.df) |->
                           AmtPerCapita(f.df.rows[i]["amt"], f.df.rows[i]["city_pop"])]))

\* The rows of row i's cc_num group, in row order.
Group(df, i) == {j \in 1..NRows(df) : df.rows[j]["cc_num"] = df.rows[i]["cc_num"]}

\* x.rolling(window=3).count() at row i of its group: the window is the row and
\* the window - 1 rows of the group before it; the result is the number of
\* non-missing unix_time values in it, and NaN when the window holds fewer than
\* min_periods rows.
RollingCount(df, i, min_periods) ==
    LET g == {j \in Group(df, i) : j <= i}
        w == {j \in g : Cardinality({k \in g : k >= j}) <= window}
        nobs == Cardinality({j \in w : df.rows[j]["unix_time"] # NaN})
    IN  IF Cardinality(w) < min_periods THEN NaN ELSE R(nobs)

\* df['trans_count'] = df.groupby('cc_num')['unix_time'].transform(...)
StepTransCount(f) ==
    LET used == <<"cc_num", "unix_time">>
    IN  IF f.err # NoErr THEN f
        ELSE IF Missing(f.df, used) # {}
             THEN Raise(f.df, KeyError(FirstMissing(f.df, used)))
        ELSE Ok(SetCol(f.df, "trans_count",
                       [i \in 1..NRows(f.df) |->
                           RollingCount(f.df, i, count_min_periods)]))

\* df.groupby('cc_num')['amt'].transform('mean') at row i: the mean over every
\* row of the group, those after row i included.
GroupMeanAmt(df, i) ==
    LET idx == SortedIdx(Group(df, i))
    IN  RMean([k \in 1..Len(idx) |-> df.rows[idx[k]]["amt"]])

\* df['amt_ratio'] = df['amt'] / df.groupby('cc_num')['amt'].transform('mean')
StepAmtRatio(f) ==
    LET used == <<"amt", "cc_num">>
    IN  IF f.err # NoErr THEN f
        ELSE IF Missing(f.df, used) # {}
             THEN Raise(f.df, KeyError(FirstMissing(f.df, used)))
        ELSE Ok(SetCol(f.df, "amt_ratio",
                       [i \in 1..NRows(f.df) |->
                           RDiv(f.df.rows[i]["amt"], GroupMeanAmt(f.df, i))]))

\* OrdinalEncoder(handle_unknown='use_encoded_value', unknown_value=-1).fit:
\* per column, the sorted distinct values.
OrdinalFit(df) ==
    [categories_ |->
               [c \in Range(cat_cols) |->
                   SortedIdx({df.rows[i][c] : i \in 1..NRows(df)})],
            unknown_value |-> unknown_value]

\* OrdinalCode with an unseen value given the code after the last category.
OrdinalCode_unknown_last(enc, c, v) ==
    LET cats == enc.categories_[c]
    IN  IF v \in Range(cats)
        THEN R((CHOOSE k \in DOMAIN cats : cats[k] = v) - 1)
        ELSE R(Len(cats))

\* The code of value v in column c: its position in categories_, from 0; the
\* unknown value when v is not among them.
OrdinalCode(enc, c, v) ==
    LET cats == enc.categories_[c]
    IN  IF v \in Range(cats)
        THEN R((CHOOSE k \in DOMAIN cats : cats[k] = v) - 1)
        ELSE R(enc.unknown_value)

\* df[cat_cols] = ordinal_encoder.transform(df[cat_cols])
OrdinalTransform(enc, df) ==
    [cols |-> df.cols,
            rows |-> [i \in 1..NRows(df) |->
                        [k \in Range(df.cols) |->
                            IF k \in Range(cat_cols)
                            THEN OrdinalCode(enc, k, df.rows[i][k])
                            ELSE df.rows[i][k]]]]

\* StepEncode with fit_transform in the else branch too: the caller's encoder
\* is fitted again, on the table it is applied to.
StepEncode_refit(f, encs, fit_encoders) ==
    IF f.err # NoErr
    THEN [df |-> f.df, err |-> f.err, encoders |-> encs, arg_encoders |-> encs]
    ELSE IF fit_encoders
    THEN IF Missing(f.df, cat_cols) # {}
         THEN [df |-> f.df, err |-> KeyError(FirstMissing(f.df, cat_cols)),
               encoders |-> None, arg_encoders |-> encs]
         ELSE [df |-> OrdinalTransform(OrdinalFit(f.df), f.df), err |-> NoErr,
               encoders |-> [ordinal_encoder |-> OrdinalFit(f.df)],
               arg_encoders |-> encs]
    ELSE IF encs = None
    THEN [df |-> f.df, err |-> <<"TypeError", "'NoneType' object is not subscriptable">>,
          encoders |-> encs, arg_encoders |-> encs]
    ELSE IF Missing(f.df, cat_cols) # {}
    THEN [df |-> f.df, err |-> KeyError(FirstMissing(f.df, cat_cols)),
          encoders |-> encs, arg_encoders |-> encs]
    ELSE [df |-> OrdinalTransform(OrdinalFit(f.df), f.df), err |-> NoErr,
          encoders |-> [ordinal_encoder |-> OrdinalFit(f.df)],
          arg_encoders |-> [ordinal_encoder |-> OrdinalFit(f.df)]]

\* StepEncode branching on encoders is None instead of on fit_encoders: a
\* supplied encoder is always applied, and one is fitted only when none is
\* supplied.
StepEncode_if_none(f, encs, fit_encoders) ==
    IF f.err # NoErr
    THEN [df |-> f.df, err |-> f.err, encoders |-> encs, arg_encoders |-> encs]
    ELSE IF Missing(f.df, cat_cols) # {}
    THEN [df |-> f.df, err |-> KeyError(FirstMissing(f.df, cat_cols)),
          encoders |-> encs, arg_encoders |-> encs]
    ELSE IF encs = None
    THEN [df |-> OrdinalTransform(OrdinalFit(f.df), f.df), err |-> NoErr,
          encoders |-> [ordinal_encoder |-> OrdinalFit(f.df)],
          arg_encoders |-> encs]
    ELSE [df |-> OrdinalTransform(encs.ordinal_encoder, f.df), err |-> NoErr,
          encoders |-> encs, arg_encoders |-> encs]

\* The if fit_encoders / else block.  The frame gains encoders, the value the
\* local name encoders is bound to after the block, and arg_encoders, the
\* caller's object after it: fitting binds the local name to a new dict, and
\* transform reads the caller's encoder without changing it.
StepEncode(f, encs, fit_encoders) ==
    IF f.err # NoErr
    THEN [df |-> f.df, err |-> f.err, encoders |-> encs, arg_encoders |-> encs]
    ELSE IF fit_encoders
    THEN IF Missing(f.df, cat_cols) # {}
         THEN [df |-> f.df, err |-> KeyError(FirstMissing(f.df, cat_cols)),
               encoders |-> None, arg_encoders |-> encs]
         ELSE [df |-> OrdinalTransform(OrdinalFit(f.df), f.df), err |-> NoErr,
               encoders |-> [ordinal_encoder |-> OrdinalFit(f.df)],
               arg_encoders |-> encs]
    ELSE IF encs = None
    THEN [df |-> f.df, err |-> <<"TypeError", "'NoneType' object is not subscriptable">>,
          encoders |-> encs, arg_encoders |-> encs]
    ELSE IF Missing(f.df, cat_cols) # {}
    THEN [df |-> f.df, err |-> KeyError(FirstMissing(f.df, cat_cols)),
          encoders |-> encs, arg_encoders |-> encs]
    ELSE [df |-> OrdinalTransform(encs.ordinal_encoder, f.df), err |-> NoErr,
          encoders |-> encs, arg_encoders |-> encs]

\* StepDrop with errors='ignore': a listed column the table lacks is skipped.
StepDrop_ignore(f) ==
    IF f.err # NoErr THEN f
    ELSE [f EXCEPT !.df = DropCols(f.df, drop_columns)]

\* df.drop(columns=[...], inplace=True)
StepDrop(f) ==
    IF f.err # NoErr THEN f
    ELSE IF Missing(f.df, drop_columns) # {}
    THEN [f EXCEPT !.err = KeyError(FirstMissing(f.df, drop_columns))]
    ELSE [f EXCEPT !.df = DropCols(f.df, drop_columns)]

\* The rows of df with each cardholder's rows together, cardholders ascending
\* (what groupby('cc_num').apply returns).
GroupedRows(df) ==
    LET key(i) == df.rows[i]["cc_num"]
        rank(i) == Cardinality({j \in 1..NRows(df) :
                       RLess(key(j), key(i)) \/ (key(j) = key(i) /\ j <= i)})
    IN  [cols |-> df.cols,
         rows |-> [r \in 1..NRows(df) |->
                     df.rows[CHOOSE i \in 1..NRows(df) : rank(i) = r]]]

\* feature_engineering leaving the table in cardholder order.
feature_engineering_grouped(df, encs, fit_encoders) ==
    LET f7 == StepAmtRatio(StepTransCount(StepAmtPerCapita(StepDistance(
                  StepAge(StepDayOfWeek(StepHour(Ok(df))))))))
        f9 == StepDrop(StepEncode(f7, encs, fit_encoders))
    IN  [err |-> f9.err,
         arg_df |-> IF f9.err = NoErr THEN GroupedRows(f9.df) ELSE f9.df,
         arg_encoders |-> f9.arg_encoders,
         ret_df |-> IF f9.err = NoErr THEN GroupedRows(f9.df) ELSE None,
         ret_encoders |-> IF f9.err = NoErr THEN f9.encoders ELSE None]

\* feature_engineering working on df.copy(): the caller's table is left as it
\* was and a new table is returned.
feature_engineering_copy(df, encs, fit_encoders) ==
    LET f7 == StepAmtRatio(StepTransCount(StepAmtPerCapita(StepDistance(
                  StepAge(StepDayOfWeek(StepHour(Ok(df))))))))
        f9 == StepDrop(StepEncode(f7, encs, fit_encoders))
    IN  [err |-> f9.err,
         arg_df |-> df,
         arg_encoders |-> f9.arg_encoders,
         ret_df |-> IF f9.err = NoErr THEN f9.df ELSE None,
         ret_encoders |-> IF f9.err = NoErr THEN f9.encoders ELSE None]

\* What a caller sees of feature_engineering(df, encoders, fit_encoders):
\*   err            the exception raised, NoErr when the call returned
\*   arg_df         the caller's DataFrame object after the call (every step
\*                  assigns into it or drops from it in place)
\*   arg_encoders   the caller's encoders object after the call
\*   ret_df, ret_encoders   the pair returned (None, None when it raised)
feature_engineering(df, encs, fit_encoders) ==
    LET f7 == StepAmtRatio(StepTransCount(StepAmtPerCapita(StepDistance(
                  StepAge(StepDayOfWeek(StepHour(Ok(df))))))))
        f9 == StepDrop(StepEncode(f7, encs, fit_encoders))
    IN  [err |-> f9.err,
         arg_df |-> f9.df,
         arg_encoders |-> f9.arg_encoders,
         ret_df |-> IF f9.err = NoErr THEN f9.df ELSE None,
         ret_encoders |-> IF f9.err = NoErr THEN f9.encoders ELSE None]


(***************************************************************************)
(* Input tables.  read_csv gives train the raw columns and the label       *)
(* is_fraud, and test the raw columns alone.  A row is built from its      *)
(* identifier i, its cardholder cc and a profile p in 1..3 that sets its   *)
(* categorical values, amount, city population and coordinates.            *)
(***************************************************************************)
RawCols ==
    <<"id", "trans_num", "trans_date", "trans_time", "unix_time", "category",
      "amt", "cc_num", "first", "last", "gender", "street", "city", "state",
      "lat", "long", "city_pop", "job", "dob", "merchant",
      "merch_lat", "merch_long">>

TrainCols == RawCols \o <<"is_fraud">>

RawRow(i, cc, p) ==
    [c \in Range(RawCols) |->
        CASE c = "id"         -> i
          [] c = "trans_num"  -> i
          [] c = "trans_date" -> <<2020, p, 1 + cc>>
          [] c = "trans_time" -> <<(7 * cc + p) % 24, 30, 0>>
          [] c = "unix_time"  -> R(1000 + p)
          [] c = "category"   -> p
          [] c = "amt"        -> R(5 * (p - 1))
          [] c = "cc_num"     -> R(cc)
          [] c = "first"      -> cc
          [] c = "last"       -> cc
          [] c = "gender"     -> 1 + (cc % 2)
          [] c = "street"     -> cc
          [] c = "city"       -> p
          [] c = "state"      -> 1 + (p % 2)
          [] c = "lat"        -> R(40)
          [] c = "long"       -> R(0 - 70)
          [] c = "city_pop"   -> R(p - 1)
          [] c = "job"        -> 4 - p
          [] c = "dob"        -> <<1970 + cc, 6, 15>>
          [] c = "merchant"   -> 10 * p
          [] c = "merch_lat"  -> R(40 + 3 * (p % 2))
          [] c = "merch_long" -> R(4 * (p % 2) - 70)]

TrainRow(i, cc, p, label) ==
    [c \in Range(TrainCols) |->
        IF c = "is_fraud" THEN label ELSE RawRow(i, cc, p)[c]]

\* A raw table without the label: row i has cardholder ccs[i] and profile ps[i].
RawTable(ccs, ps) ==
    [cols |-> RawCols,
            rows |-> [i \in 1..Len(ccs) |-> RawRow(i, ccs[i], ps[i])]]

\* A raw table with the label.
LabelledTable(ccs, ps, labels) ==
    [cols |-> TrainCols,
            rows |-> [i \in 1..Len(ccs) |->
                        TrainRow(i, ccs[i], ps[i], labels[i])]]

\* The table as read from a file that lacks column c.
WithoutCol(df, c) == DropCols(df, <<c>>)


(***************************************************************************)
(* SMOTE(random_state=42).fit_resample(X, y)  (imblearn, called at the     *)
(* Feature Selection cell).  sampling_strategy 'auto' brings every class   *)
(* but the largest to the size of the largest; each new sample is a point  *)
(* on the segment from a sample of the class to one of its k_neighbors     *)
(* nearest samples of the class.                                           *)
(***************************************************************************)
k_neighbors == 5

HasNaN(df) ==
    \E i \in 1..NRows(df) : \E c \in Range(df.cols) : ~IsFinite(df.rows[i][c])

Count(labels, v) == Cardinality({i \in DOMAIN labels : labels[i] = v})

Classes(labels) == Range(labels)

\* The class sampling_strategy 'auto' leaves alone: the largest (the first of
\* the largest in label order when several are).
MajorityClass(labels) ==
    CHOOSE c \in Classes(labels) :
        \A d \in Classes(labels) :
            \/ Count(labels, d) < Count(labels, c)
            \/ (Count(labels, d) = Count(labels, c) /\ c <= d)

\* Deficit one short: the class is brought to one below the largest.
Deficit_short(labels, c) ==
    LET d == Count(labels, MajorityClass(labels)) - Count(labels, c)
    IN  IF d > 0 THEN d - 1 ELSE 0

\* The classes to oversample and how many samples each needs.
Deficit(labels, c) == Count(labels, MajorityClass(labels)) - Count(labels, c)

ToResample(labels) == {c \in Classes(labels) : Deficit(labels, c) > 0}

\* SmoteError asking a class to oversample for k_neighbors + 2 samples.
SmoteError_one_more(df, labels) ==
    IF HasNaN(df) THEN <<"ValueError", "Input X contains NaN">>
    ELSE IF Cardinality(Classes(labels)) <= 1
    THEN <<"ValueError", "The target 'y' needs to have more than 1 class">>
    ELSE IF \E c \in ToResample(labels) : Count(labels, c) < k_neighbors + 2
    THEN <<"ValueError", "Expected n_neighbors <= n_samples_fit">>
    ELSE NoErr

\* The exception fit_resample raises on (X, y), NoErr when it does not:
\* check_X_y refuses NaN and inf, check_sampling_strategy a single class, and
\* kneighbors a class of fewer than k_neighbors + 1 samples.
SmoteError(df, labels) ==
    IF HasNaN(df) THEN <<"ValueError", "Input X contains NaN">>
    ELSE IF Cardinality(Classes(labels)) <= 1
    THEN <<"ValueError", "The target 'y' needs to have more than 1 class">>
    ELSE IF \E c \in ToResample(labels) : Count(labels, c) < k_neighbors + 1
    THEN <<"ValueError", "Expected n_neighbors <= n_samples_fit">>
    ELSE NoErr

SqDist(r1, r2, cols) ==
    RSum([k \in 1..Len(cols) |->
            RMul(RSub(r1[cols[k]], r2[cols[k]]), RSub(r1[cols[k]], r2[cols[k]]))])

\* The sets kneighbors may return for row a of class c: k_neighbors rows of
\* the class other than a, none farther from a than a row left out.
NeighbourSets(df, labels, a) ==
    LET others == {j \in 1..NRows(df) : labels[j] = labels[a] /\ j # a}
    IN  {N \in SUBSET others :
            /\ Cardinality(N) = k_neighbors
            /\ \A n \in N : \A m \in others \ N :
                  ~RLess(SqDist(df.rows[a], df.rows[m], df.cols),
                         SqDist(df.rows[a], df.rows[n], df.cols))}

\* One draw of _make_samples: a row of the class, one of its neighbours, and
\* the step in [0, 1) along the segment between them.
Draws(df, labels, c, gaps) ==
    {d \in [base : {i \in 1..NRows(df) : labels[i] = c},
            nn : 1..NRows(df), gap : gaps] :
        \E N \in NeighbourSets(df, labels, d.base) : d.nn \in N}

\* X[base] + gap * (X[nn] - X[base])
Interpolate(df, d) ==
    [k \in Range(df.cols) |->
        RAdd(df.rows[d.base][k],
             RMul(d.gap, RSub(df.rows[d.nn][k], df.rows[d.base][k])))]

\* The resampled pair for the draws ds (a sequence, one draw per new sample)
\* of class c: the original rows first, then the new ones.
Resample(df, labels, c, ds) ==
    [X |-> [cols |-> df.cols,
            rows |-> df.rows \o [j \in 1..Len(ds) |-> Interpolate(df, ds[j])]],
     y |-> labels \o [j \in 1..Len(ds) |-> c]]

(***************************************************************************)
(* train_test_split(X_smote, y_smote, test_size=0.2, random_state=42,      *)
(* stratify=y_smote)                                                       *)
(***************************************************************************)
TestPercent == 20

\* _validate_shuffle_split: n_test = ceil(test_size * n), n_train = n - n_test.
NTestRows(n) == (TestPercent * n + 99) \div 100

NTrainRows(n) == n - NTestRows(n)

\* The sum of the integers f[c], c in S.
RECURSIVE SumOver(_, _)
SumOver(f, S) ==
    IF S = {} THEN 0
    ELSE LET c == CHOOSE x \in S : TRUE IN f[c] + SumOver(f, S \ {c})

\* _approximate_mode(class_counts, n_draws): the allocations of n_draws rows
\* to the classes: each class gets the floor of its share and the rows left
\* go to classes of largest remainder, ties broken at random.
ApproximateMode(counts, n_draws) ==
    LET cls == DOMAIN counts
        total == SumOver(counts, cls)
        floorOf == [c \in cls |-> (counts[c] * n_draws) \div total]
        remOf == [c \in cls |-> (counts[c] * n_draws) % total]
        need == n_draws - SumOver(floorOf, cls)
    IN  {[c \in cls |-> floorOf[c] + (IF c \in W THEN 1 ELSE 0)] :
            W \in {V \in SUBSET cls :
                      /\ Cardinality(V) = need
                      /\ \A v \in V : \A u \in cls \ V : remOf[u] <= remOf[v]}}

ClassCounts(labels, S) ==
    [c \in Classes(labels) |-> Cardinality({i \in S : labels[i] = c})]

\* The ways to take a[c] of the rows avail of each class c of cs.
RECURSIVE Picks(_, _, _, _)
Picks(cs, avail, labels, a) ==
    IF cs = <<>> THEN {{}}
    ELSE LET mine == {i \in avail : labels[i] = cs[1]}
         IN  {S \cup T : S \in {V \in SUBSET mine : Cardinality(V) = a[cs[1]]},
                         T \in Picks(Tail(cs), avail, labels, a)}

\* The exception train_test_split raises, NoErr when it does not.
SplitError(labels) ==
    LET n == Len(labels)
    IN  IF \E c \in Classes(labels) : Count(labels, c) < 2
        THEN <<"ValueError", "The least populated class in y has only 1 member">>
        ELSE IF NTrainRows(n) < Cardinality(Classes(labels))
                \/ NTestRows(n) < Cardinality(Classes(labels))
        THEN <<"ValueError", "size should be greater or equal to the number of classes">>
        ELSE NoErr

\* Splits without stratify: any NTrainRows rows for train, the rest for test.
Splits_unstratified(labels) ==
    LET n == Len(labels)
    IN  {[train |-> tr, test |-> (1..n) \ tr] :
            tr \in {V \in SUBSET (1..n) : Cardinality(V) = NTrainRows(n)}}

\* The (train, test) index sets StratifiedShuffleSplit._iter_indices can
\* produce: the train rows by class as _approximate_mode allots them, the
\* test rows from the rows left, allotted the same way.
Splits(labels) ==
    LET n == Len(labels)
        cs == SortedIdx(Classes(labels))
    IN  UNION {
          UNION {
            {[train |-> tr, test |-> te] :
                te \in UNION {Picks(cs, (1..n) \ tr, labels, t) :
                         t \in ApproximateMode(ClassCounts(labels, (1..n) \ tr),
                                               NTestRows(n))}} :
            tr \in Picks(cs, 1..n, labels, a)} :
          a \in ApproximateMode(ClassCounts(labels, 1..n), NTrainRows(n))}

\* df.iloc[idx]: the rows idx of df.  (The shuffle also permutes the rows of
\* each part; the model keeps them in index order.)
TakeRows(df, S) ==
    LET idx == SortedIdx(S)
    IN  [cols |-> df.cols, rows |-> [j \in 1..Len(idx) |-> df.rows[idx[j]]]]

TakeLabels(labels, S) ==
    LET idx == SortedIdx(S)
    IN  [j \in 1..Len(idx) |-> labels[idx[j]]]

(***************************************************************************)
(* StandardScaler                                                          *)
(***************************************************************************)
\* numeric_features with trans_count listed too.
numeric_features_with_count ==
    <<"amt", "lat", "long", "merch_lat", "merch_long", "city_pop",
      "amt_per_capita", "age", "hour", "distance", "trans_count">>

numeric_features ==
    <<"amt", "lat", "long", "merch_lat", "merch_long", "city_pop",
      "amt_per_capita", "age", "hour", "distance">>

\* scaler.fit(df[numeric_features]): per column the mean and the population
\* variance; scale_ is sqrt(var_), and 1 where var_ is 0.
ScalerFit(df) ==
    [mean_ |-> [c \in Range(numeric_features) |-> RMean(Column(df, c))],
     var_ |-> [c \in Range(numeric_features) |->
                  RSub(RMean([i \in 1..NRows(df) |->
                                 RMul(df.rows[i][c], df.rows[i][c])]),
                       RMul(RMean(Column(df, c)), RMean(Column(df, c))))]]

\* (x - mean_) / scale_.  With var_ = 0 the quotient is the difference; else
\* it is kept as <<"z", difference, var_>>, which stands for
\* difference / sqrt(var_).
Standardize(sc, c, x) ==
    LET diff == RSub(x, sc.mean_[c])
    IN  IF diff = NaN THEN NaN
        ELSE IF sc.var_[c] = R(0) THEN diff
        ELSE <<"z", diff, sc.var_[c]>>

\* df[numeric_features] = scaler.transform(df[numeric_features])
ScalerTransform(sc, df) ==
    [cols |-> df.cols,
     rows |-> [i \in 1..NRows(df) |->
                 [k \in Range(df.cols) |->
                     IF k \in Range(numeric_features)
                     THEN Standardize(sc, k, df.rows[i][k])
                     ELSE df.rows[i][k]]]]

(***************************************************************************)
(* GradientBoostingClassifier.  What fit learns is a function from the     *)
(* feature row to a label; the model keeps the columns it was fit on and   *)
(* one of two such functions.                                              *)
(***************************************************************************)
Rules == {"always0", "amt_above_mean"}

\* The sign of a scaled cell.
Positive(z) ==
    IF z = NaN THEN FALSE
    ELSE IF Len(z) = 3 THEN z[2][1] > 0
    ELSE z[1] > 0

PredictRow(m, row) ==
    CASE m.rule = "always0" -> 0
      [] m.rule = "amt_above_mean" -> IF Positive(row["amt"]) THEN 1 ELSE 0

CellMissing(z) == z = NaN \/ (Len(z) = 2 /\ z[2] = 0)

\* The exception model.predict(df) raises, NoErr when it does not: the
\* columns must be those of fit, in order, and no cell NaN or inf.
PredictError(m, df) ==
    IF df.cols # m.feature_names_in_
    THEN <<"ValueError", "The feature names should match those that were passed during fit">>
    ELSE IF \E i \in 1..NRows(df) : \E c \in Range(df.cols) : CellMissing(df.rows[i][c])
    THEN <<"ValueError", "Input X contains NaN">>
    ELSE NoErr

Predict(m, df) == [i \in 1..NRows(df) |-> PredictRow(m, df.rows[i])]


(***************************************************************************)
(* The notebook run.  Run All executes the cells top to bottom and stops   *)
(* at the first exception; pc names the statement to execute next.         *)
(***************************************************************************)
Surplus == 1

NTest == 2

\* (negatives, positives) of the train tables tried.
Shapes ==
    {<<k_neighbors + 1 + Surplus, k_neighbors + 1>>,
     <<k_neighbors + 1 + Surplus, k_neighbors>>,
     <<8, 2>>}

\* train.csv with neg legitimate rows of one cardholder and then pos fraud
\* rows of another, of profiles 2 and 3 (v = 0) or 3 and 2 (v = 1).
TrainTable(neg, pos, v) ==
    LabelledTable([i \in 1..(neg + pos) |-> IF i <= neg THEN 1 ELSE 2],
                  [i \in 1..(neg + pos) |-> IF i <= neg THEN 2 + v ELSE 3 - v],
                  [i \in 1..(neg + pos) |-> IF i <= neg THEN 0 ELSE 1])

\* test.csv with NTest rows of cardholders 2 and 1 in turn, profiles 1..3 in
\* turn from v.
TestTable(v) ==
    RawTable([i \in 1..NTest |-> 1 + (i % 2)],
             [i \in 1..NTest |-> 1 + ((i + v) % 3)])

NoCol == "-"

Gaps == {R(0), <<1, 2>>}

Years == {2025, 2026}

Init ==
    /\ now_year \in Years
    /\ count_min_periods \in {0, window}
    /\ \E shape \in Shapes, v \in {0, 1} :
          /\ \E c \in {NoCol} \cup Range(TrainCols) :
                train_csv = IF c = NoCol THEN TrainTable(shape[1], shape[2], v)
                        ELSE WithoutCol(TrainTable(shape[1], shape[2], v), c)
          /\ \E c \in {NoCol} \cup Range(RawCols) :
                test_csv = IF c = NoCol THEN TestTable(v)
                       ELSE WithoutCol(TestTable(v), c)
    /\ (train_csv.cols = TrainCols \/ test_csv.cols = RawCols)
    /\ pc = "load"
    /\ err = NoErr
    /\ train = None /\ test = None
    /\ encoders = None
    /\ X = None /\ y = None /\ X_test_submission = None
    /\ X_smote = None /\ y_smote = None
    /\ X_train = None /\ X_val = None /\ y_train = None /\ y_val = None
    /\ scaler = None
    /\ model = None
    /\ y_pred = None /\ y_test_pred = None
    /\ submission_file = None
    /\ call = None

Abort(e) == pc' = "aborted" /\ err' = e

\* train = pd.read_csv("./data/train.csv"); test = pd.read_csv("./data/test.csv")
Load ==
    /\ pc = "load"
    /\ train' = train_csv
    /\ test' = test_csv
    /\ pc' = "fe_train"
    /\ UNCHANGED <<now_year, count_min_periods, train_csv, test_csv, err, encoders,
                   X, y, X_test_submission, X_smote, y_smote, X_train, X_val,
                   y_train, y_val, scaler, model, y_pred, y_test_pred,
                   submission_file, call>>

\* train, encoders = feature_engineering(train, fit_encoders=True)
FeTrain ==
    /\ pc = "fe_train"
    /\ LET r == feature_engineering(train, None, TRUE)
       IN  /\ train' = r.arg_df
           /\ IF r.err = NoErr
              THEN encoders' = r.ret_encoders /\ pc' = "fe_test" /\ err' = NoErr
              ELSE encoders' = encoders /\ Abort(r.err)
    /\ UNCHANGED <<now_year, count_min_periods, train_csv, test_csv, test, X, y, X_test_submission,
                   X_smote, y_smote, X_train, X_val, y_train, y_val, scaler,
                   model, y_pred, y_test_pred, submission_file, call>>

\* test, _ = feature_engineering(test, encoders=encoders, fit_encoders=False)
FeTest ==
    /\ pc = "fe_test"
    /\ LET r == feature_engineering(test, encoders, FALSE)
       IN  /\ test' = r.arg_df
           /\ encoders' = r.arg_encoders
           /\ IF r.err = NoErr
              THEN pc' = "select" /\ err' = NoErr
              ELSE Abort(r.err)
    /\ UNCHANGED <<now_year, count_min_periods, train_csv, test_csv, train, X, y, X_test_submission,
                   X_smote, y_smote, X_train, X_val, y_train, y_val, scaler,
                   model, y_pred, y_test_pred, submission_file, call>>

\* Select with X_test_submission = test.drop(columns=['trans_num']): the test
\* features keep the column id.
Select_keep_id ==
    LET dropTrain == <<"is_fraud", "trans_num", "id">>
        dropTest == <<"trans_num">>
    IN  /\ pc = "select"
        /\ IF Missing(train, dropTrain) # {}
           THEN /\ Abort(KeyError(FirstMissing(train, dropTrain)))
                /\ UNCHANGED <<X, y, X_test_submission>>
           ELSE /\ X' = DropCols(train, dropTrain)
                /\ y' = Column(train, "is_fraud")
                /\ IF Missing(test, dropTest) # {}
                   THEN /\ Abort(KeyError(FirstMissing(test, dropTest)))
                        /\ UNCHANGED X_test_submission
                   ELSE /\ X_test_submission' = DropCols(test, dropTest)
                        /\ pc' = "smote" /\ err' = NoErr
        /\ UNCHANGED <<now_year, count_min_periods, train_csv, test_csv, train,
                       test, encoders, X_smote, y_smote, X_train, X_val, y_train,
                       y_val, scaler, model, y_pred, y_test_pred,
                       submission_file, call>>

\* X = train.drop(columns=['is_fraud', 'trans_num', 'id'])
\* y = train['is_fraud']
\* X_test_submission = test.drop(columns=['trans_num', 'id'])
Select ==
    LET dropTrain == <<"is_fraud", "trans_num", "id">>
        dropTest == <<"trans_num", "id">>
    IN  /\ pc = "select"
        /\ IF Missing(train, dropTrain) # {}
           THEN /\ Abort(KeyError(FirstMissing(train, dropTrain)))
                /\ UNCHANGED <<X, y, X_test_submission>>
           ELSE /\ X' = DropCols(train, dropTrain)
                /\ y' = Column(train, "is_fraud")
                /\ IF Missing(test, dropTest) # {}
                   THEN /\ Abort(KeyError(FirstMissing(test, dropTest)))
                        /\ UNCHANGED X_test_submission
                   ELSE /\ X_test_submission' = DropCols(test, dropTest)
                        /\ pc' = "smote" /\ err' = NoErr
        /\ UNCHANGED <<now_year, count_min_periods, train_csv, test_csv, train, test, encoders,
                       X_smote, y_smote, X_train, X_val, y_train, y_val, scaler,
                       model, y_pred, y_test_pred, submission_file, call>>

\* smote = SMOTE(random_state=42); X_smote, y_smote = smote.fit_resample(X, y)
Smote ==
    /\ pc = "smote"
    /\ IF SmoteError(X, y) # NoErr
       THEN Abort(SmoteError(X, y)) /\ UNCHANGED <<X_smote, y_smote>>
       ELSE \E c \in Classes(y) :
              /\ c # MajorityClass(y)
              /\ \E ds \in [1..Deficit(y, c) -> Draws(X, y, c, Gaps)] :
                    LET r == Resample(X, y, c, ds)
                    IN  X_smote' = r.X /\ y_smote' = r.y
              /\ pc' = "split" /\ err' = NoErr
    /\ UNCHANGED <<now_year, count_min_periods, train_csv, test_csv, train, test, encoders, X, y,
                   X_test_submission, X_train, X_val, y_train, y_val, scaler,
                   model, y_pred, y_test_pred, submission_file, call>>

\* X_train, X_val, y_train, y_val = train_test_split(X_smote, y_smote, ...)
Split ==
    /\ pc = "split"
    /\ IF SplitError(y_smote) # NoErr
       THEN /\ Abort(SplitError(y_smote))
            /\ UNCHANGED <<X_train, X_val, y_train, y_val>>
       ELSE \E sp \in Splits(y_smote) :
              /\ X_train' = TakeRows(X_smote, sp.train)
              /\ X_val' = TakeRows(X_smote, sp.test)
              /\ y_train' = TakeLabels(y_smote, sp.train)
              /\ y_val' = TakeLabels(y_smote, sp.test)
              /\ pc' = "scale_train" /\ err' = NoErr
    /\ UNCHANGED <<now_year, count_min_periods, train_csv, test_csv, train, test, encoders, X, y,
                   X_test_submission, X_smote, y_smote, scaler,
                   model, y_pred, y_test_pred, submission_file, call>>

\* scaler = StandardScaler()
\* X_train[numeric_features] = scaler.fit_transform(X_train[numeric_features])
ScaleTrain ==
    /\ pc = "scale_train"
    /\ scaler' = ScalerFit(X_train)
    /\ X_train' = ScalerTransform(scaler', X_train)
    /\ pc' = "scale_val"
    /\ UNCHANGED <<now_year, count_min_periods, train_csv, test_csv, err, train, test, encoders, X, y,
                   X_test_submission, X_smote, y_smote, X_val, y_train, y_val,
                   model, y_pred, y_test_pred, submission_file, call>>

\* ScaleVal with fit_transform: the scaler is fitted again, on X_val.
ScaleVal_refit ==
    /\ pc = "scale_val"
    /\ scaler' = ScalerFit(X_val)
    /\ X_val' = ScalerTransform(scaler', X_val)
    /\ pc' = "scale_test"
    /\ UNCHANGED <<now_year, count_min_periods, train_csv, test_csv, err, train,
                   test, encoders, X, y, X_test_submission, X_smote, y_smote,
                   X_train, y_train, y_val, model, y_pred, y_test_pred,
                   submission_file, call>>

\* X_val[numeric_features] = scaler.transform(X_val[numeric_features])
ScaleVal ==
    /\ pc = "scale_val"
    /\ X_val' = ScalerTransform(scaler, X_val)
    /\ pc' = "scale_test"
    /\ UNCHANGED <<now_year, count_min_periods, train_csv, test_csv, err, train, test, encoders, X, y,
                   X_test_submission, X_smote, y_smote, X_train, y_train, y_val,
                   scaler, model, y_pred, y_test_pred, submission_file, call>>

\* X_test_submission[numeric_features] = scaler.transform(X_test_submission[...])
ScaleTest ==
    /\ pc = "scale_test"
    /\ X_test_submission' = ScalerTransform(scaler, X_test_submission)
    /\ pc' = "fit"
    /\ UNCHANGED <<now_year, count_min_periods, train_csv, test_csv, err, train, test, encoders, X, y,
                   X_smote, y_smote, X_train, X_val, y_train, y_val,
                   scaler, model, y_pred, y_test_pred, submission_file, call>>

\* FitModel moved before the scaling: the model is fitted on X_train as the
\* split left it, and the run goes on to the evaluation.
FitModel_unscaled ==
    /\ pc = "scale_train"
    /\ \E rule \in Rules :
          model' = [feature_names_in_ |-> X_train.cols, rule |-> rule]
    /\ pc' = "evaluate"
    /\ UNCHANGED <<now_year, count_min_periods, train_csv, test_csv, err, train,
                   test, encoders, X, y, X_test_submission, X_smote, y_smote,
                   X_train, X_val, y_train, y_val, scaler, y_pred, y_test_pred,
                   submission_file, call>>

\* model = GradientBoostingClassifier(...); model.fit(X_train, y_train)
FitModel ==
    /\ pc = "fit"
    /\ \E rule \in Rules :
          model' = [feature_names_in_ |-> X_train.cols, rule |-> rule]
    /\ pc' = "evaluate"
    /\ UNCHANGED <<now_year, count_min_periods, train_csv, test_csv, err, train, test, encoders, X, y,
                   X_test_submission, X_smote, y_smote, X_train, X_val, y_train,
                   y_val, scaler, y_pred, y_test_pred, submission_file, call>>

\* y_pred = model.predict(X_val), then the f1 score, the classification report
\* and the confusion matrix, which read y_val and y_pred and write nothing.
Evaluate ==
    /\ pc = "evaluate"
    /\ IF PredictError(model, X_val) # NoErr
       THEN Abort(PredictError(model, X_val)) /\ UNCHANGED y_pred
       ELSE y_pred' = Predict(model, X_val) /\ pc' = "predict_test" /\ err' = NoErr
    /\ UNCHANGED <<now_year, count_min_periods, train_csv, test_csv, train, test, encoders, X, y,
                   X_test_submission, X_smote, y_smote, X_train, X_val, y_train,
                   y_val, scaler, model, y_test_pred, submission_file, call>>

\* y_test_pred = model.predict(X_test_submission); test['is_fraud'] = y_test_pred
PredictTest ==
    /\ pc = "predict_test"
    /\ IF PredictError(model, X_test_submission) # NoErr
       THEN /\ Abort(PredictError(model, X_test_submission))
            /\ UNCHANGED <<y_test_pred, test>>
       ELSE /\ y_test_pred' = Predict(model, X_test_submission)
            /\ IF Len(y_test_pred') # NRows(test)
               THEN /\ Abort(<<"ValueError", "Length of values does not match length of index">>)
                    /\ UNCHANGED test
               ELSE /\ test' = SetCol(test, "is_fraud", y_test_pred')
                    /\ pc' = "write" /\ err' = NoErr
    /\ UNCHANGED <<now_year, count_min_periods, train_csv, test_csv, train, encoders, X, y,
                   X_test_submission, X_smote, y_smote, X_train, X_val, y_train,
                   y_val, scaler, model, y_pred, submission_file, call>>

\* submission = test[['id', 'is_fraud']]
\* submission.to_csv('./data/fraud_submission2.csv', index=False)
WriteSubmission ==
    LET wanted == <<"id", "is_fraud">>
    IN  /\ pc = "write"
        /\ IF Missing(test, wanted) # {}
           THEN Abort(KeyError(FirstMissing(test, wanted))) /\ UNCHANGED submission_file
           ELSE /\ submission_file' = SelectCols(test, wanted)
                /\ pc' = "done" /\ err' = NoErr
        /\ UNCHANGED <<now_year, count_min_periods, train_csv, test_csv, train, test, encoders, X, y,
                       X_test_submission, X_smote, y_smote, X_train, X_val,
                       y_train, y_val, scaler, model, y_pred, y_test_pred, call>>

Next ==
    \/ Load
    \/ FeTrain
    \/ FeTest
    \/ Select
    \/ Smote
    \/ Split
    \/ ScaleTrain
    \/ ScaleVal
    \/ ScaleTest
    \/ FitModel
    \/ Evaluate
    \/ PredictTest
    \/ WriteSubmission

Spec == Init /\ [][Next]_vars


(***************************************************************************)
(* feature_engineering as a function of its three arguments: after the     *)
(* first call has fitted an encoder on train, a caller calls it on test    *)
(* with any encoders argument and any fit_encoders flag.  call records     *)
(* what the caller passed and what it sees after the call.                 *)
(***************************************************************************)
MaxRows == 4

NProfiles == 3

FitRows == 2

\* A table of Len(ccs) rows: row i of cardholder ccs[i], profiles in turn
\* from v.
HarnessTable(ccs, v) ==
    RawTable(ccs, [i \in 1..Len(ccs) |-> 1 + ((i + v) % NProfiles)])

InitFE ==
    /\ now_year \in Years
    /\ count_min_periods \in {0, window}
    /\ \E v \in 0..(NProfiles - 1) :
          train_csv = LabelledTable([i \in 1..FitRows |-> 1 + (i % 2)],
                                    [i \in 1..FitRows |-> 1 + ((i + v) % NProfiles)],
                                    [i \in 1..FitRows |-> i % 2])
    /\ \E n \in 1..MaxRows, v \in 0..(NProfiles - 1) :
          \E ccs \in [1..n -> {1, 2}] : test_csv = HarnessTable(ccs, v)
    /\ pc = "load"
    /\ err = NoErr
    /\ train = None /\ test = None
    /\ encoders = None
    /\ X = None /\ y = None /\ X_test_submission = None
    /\ X_smote = None /\ y_smote = None
    /\ X_train = None /\ X_val = None /\ y_train = None /\ y_val = None
    /\ scaler = None
    /\ model = None
    /\ y_pred = None /\ y_test_pred = None
    /\ submission_file = None
    /\ call = None

\* feature_engineering(test, encoders=encs, fit_encoders=fit)
CallAny ==
    /\ pc = "fe_test"
    /\ \E encs \in {None, encoders}, fit \in BOOLEAN :
          LET r == feature_engineering(test, encs, fit)
          IN  /\ call' = [df |-> test, encoders |-> encs, fit_encoders |-> fit,
                          res |-> r]
              /\ test' = r.arg_df
              /\ err' = r.err
    /\ pc' = "called"
    /\ UNCHANGED <<now_year, count_min_periods, train_csv, test_csv, train,
                   encoders, X, y, X_test_submission, X_smote, y_smote, X_train,
                   X_val, y_train, y_val, scaler, model, y_pred, y_test_pred,
                   submission_file>>

NextFE ==
    \/ Load
    \/ FeTrain
    \/ CallAny

SpecFE == InitFE /\ [][NextFE]_vars


(***************************************************************************)
(* The notebook run a second time on the same two files, with the same     *)
(* libraries, at a later moment.  call keeps what the first run's          *)
(* feature_engineering call on train returned.                             *)
(***************************************************************************)
\* Run All again: train is read from train.csv anew, and the clock may have
\* passed into a later year.
Restart ==
    /\ pc = "fe_test"
    /\ call = None
    /\ call' = [df |-> train_csv, encoders |-> None, fit_encoders |-> TRUE,
                res |-> [err |-> NoErr, arg_df |-> train, arg_encoders |-> None,
                         ret_df |-> train, ret_encoders |-> encoders]]
    /\ \E yr \in Years : yr >= now_year /\ now_year' = yr
    /\ train' = train_csv
    /\ test' = test_csv
    /\ encoders' = None
    /\ pc' = "fe_train"
    /\ UNCHANGED <<count_min_periods, train_csv, test_csv, err, X, y,
                   X_test_submission, X_smote, y_smote, X_train, X_val, y_train,
                   y_val, scaler, model, y_pred, y_test_pred, submission_file>>

NextRerun ==
    \/ Load
    \/ FeTrain
    \/ Restart

SpecRerun == InitFE /\ [][NextRerun]_vars


(***************************************************************************)
(* The amt_per_capita statement of feature_engineering alone, on tables    *)
(* of one or two rows whose amt and city_pop range over negative, zero     *)
(* and positive values.                                                    *)
(***************************************************************************)
AmtValues == {R(-5), R(0), <<1, 2>>, R(5), <<999, 100>>, R(1000)}

PopValues == {R(-2), R(-1), R(0), R(1), R(3), R(1000)}

InitAPC ==
    /\ now_year \in Years
    /\ count_min_periods \in {0, window}
    /\ \E n \in 1..2 :
          \E as \in [1..n -> AmtValues], ps \in [1..n -> PopValues] :
              train_csv = [cols |-> <<"amt", "city_pop">>,
                           rows |-> [i \in 1..n |->
                                       [amt |-> as[i], city_pop |-> ps[i]]]]
    /\ test_csv = None
    /\ pc = "load"
    /\ err = NoErr
    /\ train = None /\ test = None
    /\ encoders = None
    /\ X = None /\ y = None /\ X_test_submission = None
    /\ X_smote = None /\ y_smote = None
    /\ X_train = None /\ X_val = None /\ y_train = None /\ y_val = None
    /\ scaler = None
    /\ model = None
    /\ y_pred = None /\ y_test_pred = None
    /\ submission_file = None
    /\ call = None

\* df['amt_per_capita'] = df['amt'] / (df['city_pop'] + 1), with df = train
AmtPerCapitaOnly ==
    /\ pc = "fe_train"
    /\ LET f == StepAmtPerCapita(Ok(train))
       IN  train' = f.df /\ err' = f.err
    /\ pc' = "called"
    /\ UNCHANGED <<now_year, count_min_periods, train_csv, test_csv, test,
                   encoders, X, y, X_test_submission, X_smote, y_smote, X_train,
                   X_val, y_train, y_val, scaler, model, y_pred, y_test_pred,
                   submission_file, call>>

NextAPC ==
    \/ Load
    \/ AmtPerCapitaOnly

SpecAPC == InitAPC /\ [][NextAPC]_vars


(***************************************************************************)
(* Properties                                                              *)
(***************************************************************************)
\* The distinct values of column c of train.csv.
TrainValues(c) == {train_csv.rows[i][c] : i \in 1..NRows(train_csv)}

\* The call recorded returned normally.
Returned == call # None /\ call.res.err = NoErr

\* C1: in every run the encoding table holds, per categorical column, exactly
\* the values of that column of the training table, from the moment it is
\* fitted on; the feature_engineering call on the test table leaves it as the
\* call on the training table made it, so no value of the test table ever
\* enters it.
C1_EncoderFitOnTrainOnly ==
    /\ [](encoders # None =>
            \A c \in Range(cat_cols) :
                Range(encoders.ordinal_encoder.categories_[c]) = TrainValues(c))
    /\ [][encoders # None => encoders' = encoders]_vars

\* C1 witness: the test table has been through feature_engineering, it holds a
\* categorical value the training table lacks, and the encoder is fitted.
C1_Witness ==
    /\ pc = "select"
    /\ encoders # None
    /\ \E i \in 1..NRows(test_csv) : \E c \in Range(cat_cols) :
          test_csv.rows[i][c] \notin TrainValues(c)

\* C2: the scaling parameters are computed once, at the fit on the training
\* subset, as the mean and the population variance of each numeric column of
\* that subset's rows; no later step changes them, and the validation subset
\* and the test set are transformed with exactly those parameters.
C2_ScalerFitOnceOnTrainSubset ==
    [][/\ (scaler = None /\ scaler' # None) =>
            /\ pc = "scale_train"
            /\ \A c \in Range(numeric_features) :
                  /\ RMul(scaler'.mean_[c], R(NRows(X_train)))
                        = RSum(Column(X_train, c))
                  /\ RMul(RAdd(scaler'.var_[c],
                               RMul(scaler'.mean_[c], scaler'.mean_[c])),
                          R(NRows(X_train)))
                        = RSum([i \in 1..NRows(X_train) |->
                                   RMul(X_train.rows[i][c], X_train.rows[i][c])])
       /\ scaler # None => scaler' = scaler
       /\ (pc = "scale_val" /\ pc' = "scale_test") =>
            X_val' = ScalerTransform(scaler', X_val)
       /\ (pc = "scale_test" /\ pc' = "fit") =>
            X_test_submission' = ScalerTransform(scaler', X_test_submission)
      ]_vars

\* C2 witness: the three tables have been scaled, by a scaler whose amt column
\* has a spread, and the validation subset is not empty.
C2_Witness ==
    /\ pc = "fit"
    /\ scaler # None
    /\ scaler.var_["amt"] # R(0)
    /\ NRows(X_val) > 0
    /\ NRows(X_test_submission) > 0

\* C3 (as claimed): every call of feature_engineering with no encoding table
\* supplied, whatever fit_encoders, returns without raising, with an encoding
\* table fitted from the categorical columns of its input.
C3_FitsWheneverNoEncoderSupplied ==
    (call # None /\ call.encoders = None) =>
        /\ call.res.err = NoErr
        /\ call.res.ret_encoders # None
        /\ \A c \in Range(cat_cols) :
              Range(call.res.ret_encoders.ordinal_encoder.categories_[c])
                 = {call.df.rows[i][c] : i \in 1..NRows(call.df)}

\* C4 (as claimed): every call of feature_engineering with an encoding table
\* supplied, whatever fit_encoders, returns the supplied table, unchanged.
C4_SuppliedEncoderNeverRefit ==
    (call # None /\ call.encoders # None) =>
        /\ call.res.err = NoErr
        /\ call.res.ret_encoders = call.encoders
        /\ call.res.arg_encoders = call.encoders

\* C4 (amended): every call of feature_engineering with an encoding table
\* supplied leaves the supplied table as it was; with fit_encoders false the
\* table returned is the supplied one, and with fit_encoders true it is a new
\* table fitted from the categorical columns of the input.
C4_SuppliedEncoderKeptAndReturnedUnlessFit ==
    (call # None /\ call.encoders # None) =>
        /\ call.res.err = NoErr
        /\ call.res.arg_encoders = call.encoders
        /\ ~call.fit_encoders => call.res.ret_encoders = call.encoders
        /\ call.fit_encoders =>
              \A c \in Range(cat_cols) :
                  Range(call.res.ret_encoders.ordinal_encoder.categories_[c])
                     = {call.df.rows[i][c] : i \in 1..NRows(call.df)}

\* C4 witness: a call with the fitted table supplied and fit_encoders false
\* has returned it, on a table holding a value the table does not know.
C4_Witness ==
    /\ Returned
    /\ call.encoders # None
    /\ ~call.fit_encoders
    /\ call.res.ret_encoders = call.encoders
    /\ \E i \in 1..NRows(call.df) : \E c \in Range(cat_cols) :
          call.df.rows[i][c] \notin TrainValues(c)

\* C5: when the encoding table fitted on the training table is applied to a
\* table, no error is raised; a value absent from that column of the training
\* table gets the unknown code -1, and a value present in it gets its rank
\* among the column's training values, which is never -1.
C5_UnseenValueGetsSentinel ==
    (call # None /\ call.encoders # None /\ ~call.fit_encoders) =>
        /\ call.res.err = NoErr
        /\ \A i \in 1..NRows(call.df) : \A c \in Range(cat_cols) :
              IF call.df.rows[i][c] \in TrainValues(c)
              THEN /\ call.res.ret_df.rows[i][c]
                         = R(Cardinality({w \in TrainValues(c) :
                                             w < call.df.rows[i][c]}))
                   /\ call.res.ret_df.rows[i][c] # R(unknown_value)
              ELSE call.res.ret_df.rows[i][c] = R(unknown_value)

\* C5 witness: the fitted table has been applied to a table with a value
\* absent from training, coded -1, and a value present in training.
C5_Witness ==
    /\ Returned
    /\ call.encoders # None
    /\ ~call.fit_encoders
    /\ \E i \in 1..NRows(call.df) :
          /\ call.df.rows[i]["category"] \notin TrainValues("category")
          /\ call.res.ret_df.rows[i]["category"] = R(unknown_value)
    /\ \E i \in 1..NRows(call.df) :
          call.df.rows[i]["category"] \in TrainValues("category")

\* The columns of a raw table that feature_engineering keeps.
KeptCols(df) ==
    LET keep(c) == c \notin Range(drop_columns) IN SelectSeq(df.cols, keep)

DerivedCols ==
    <<"hour", "day_of_week", "age", "distance", "amt_per_capita",
      "trans_count", "amt_ratio">>

\* C6 (as claimed): after a call of feature_engineering the table the caller
\* passed has the columns and the cells it had before the call.
C6_ArgumentTableUnchanged ==
    call # None => call.res.arg_df = call.df

\* C6 (amended): feature_engineering works on the caller's table in place and
\* returns that table: after a call that returns, the table passed is the table
\* returned, with the six columns trans_date, trans_time, dob, first, last,
\* street dropped, the seven derived columns appended and the categorical
\* columns holding codes; its row count, its row order and the cells of its
\* other columns are as before, and the encoders argument is as before.
C6_ArgumentTableChangedInPlace ==
    Returned =>
        /\ call.res.arg_df = call.res.ret_df
        /\ call.res.arg_df.cols = KeptCols(call.df) \o DerivedCols
        /\ NRows(call.res.arg_df) = NRows(call.df)
        /\ \A i \in 1..NRows(call.df) :
              \A c \in Range(KeptCols(call.df)) \ Range(cat_cols) :
                  call.res.arg_df.rows[i][c] = call.df.rows[i][c]
        /\ call.res.arg_encoders = call.encoders

\* C6 witness: a call has returned and the caller's table has lost trans_time
\* and gained hour.
C6_Witness ==
    /\ Returned
    /\ HasCol(call.df, "trans_time")
    /\ ~HasCol(call.res.arg_df, "trans_time")
    /\ HasCol(call.res.arg_df, "hour")

\* C7: after the balancer has run, the rows labelled 1 are as many as the rows
\* labelled 0, every original row is still there with its label, and the
\* table and the label column returned have the same number of rows.
C7_BalancedAfterSmote ==
    y_smote # None =>
        /\ Count(y_smote, 1) = Count(y_smote, 0)
        /\ NRows(X_smote) = Len(y_smote)
        /\ \A i \in 1..NRows(X) : \E j \in 1..NRows(X_smote) :
              X_smote.rows[j] = X.rows[i] /\ y_smote[j] = y[i]

\* C7 witness: the balancer has added rows to a table whose classes differed
\* in size.
C7_Witness ==
    /\ y_smote # None
    /\ Count(y, 1) # Count(y, 0)
    /\ NRows(X_smote) > NRows(X)

\* C8: the submission has the two columns id and is_fraud and one row per row
\* of the test file, and row i carries the identifier of row i of the test
\* file.
C8_SubmissionKeepsIdentifiers ==
    submission_file # None =>
        /\ submission_file.cols = <<"id", "is_fraud">>
        /\ NRows(submission_file) = NRows(test_csv)
        /\ \A i \in 1..NRows(test_csv) :
              /\ submission_file.rows[i]["id"] = test_csv.rows[i]["id"]
              /\ submission_file.rows[i]["is_fraud"] \in {0, 1}

\* C8 witness: a submission of at least two rows, of two cardholders not in
\* ascending order, has been written.
C8_Witness ==
    /\ pc = "done"
    /\ submission_file # None
    /\ NRows(submission_file) >= 2
    /\ RLess(test_csv.rows[2]["cc_num"], test_csv.rows[1]["cc_num"])

\* C9 (as claimed): in every row of every table feature_engineering returns,
\* trans_count is 1, 2 or 3.
C9_TransCountBetween1And3 ==
    Returned =>
        \A i \in 1..NRows(call.res.ret_df) :
            call.res.ret_df.rows[i]["trans_count"] \in {R(1), R(2), R(3)}

\* A raw column is absent from one of the two files.
RawColumnAbsent ==
    Missing(train_csv, TrainCols) # {} \/ Missing(test_csv, RawCols) # {}

\* C10: when a raw column is absent from an input file the run never gets
\* past the feature selection, writes no submission, and ends on a KeyError
\* that names a column the file lacks; and no run that has ended on an
\* exception has written the submission.
C10_MissingColumnAbortsBeforeOutput ==
    /\ RawColumnAbsent =>
          /\ pc \in {"load", "fe_train", "fe_test", "select", "aborted"}
          /\ submission_file = None
          /\ pc = "aborted" =>
                /\ err[1] = "KeyError"
                /\ \/ err[2] \in Range(TrainCols) \ Range(train_csv.cols)
                   \/ err[2] \in Range(RawCols) \ Range(test_csv.cols)
    /\ pc = "aborted" => submission_file = None

\* C10 witness: a run on a test file without the column street has ended on
\* the KeyError for it, after the training table went through.
C10_Witness ==
    /\ pc = "aborted"
    /\ ~HasCol(test_csv, "street")
    /\ err = KeyError("street")
    /\ encoders # None

\* fit_resample has been called: the feature selection went through and the
\* run is past the SMOTE statement.
SmoteRan == X_test_submission # None /\ pc # "smote"

\* The size of the smaller of the classes 0 and 1.
MinorityCount(labels) ==
    IF Count(labels, 0) <= Count(labels, 1)
    THEN Count(labels, 0) ELSE Count(labels, 1)

\* C11 (as claimed): on a table free of NaN the balancer returns a balanced
\* table when the minority class has at least k_neighbors = 5 rows, and raises,
\* returning none, when it has fewer.
C11_SucceedsFromFiveMinorityRows ==
    (SmoteRan /\ ~HasNaN(X)) =>
        IF MinorityCount(y) >= k_neighbors
        THEN X_smote # None /\ y_smote # None
        ELSE X_smote = None /\ y_smote = None /\ pc = "aborted"

\* C11 (amended): on a table free of NaN whose two classes differ in size, the
\* balancer returns a balanced table when the minority class has at least
\* k_neighbors + 1 = 6 rows, and when it has fewer it returns none and the run
\* ends on the ValueError of the neighbour search.
C11_SucceedsFromSixMinorityRows ==
    (SmoteRan /\ ~HasNaN(X) /\ Count(y, 0) # Count(y, 1)) =>
        IF MinorityCount(y) >= k_neighbors + 1
        THEN X_smote # None /\ y_smote # None
        ELSE /\ X_smote = None /\ y_smote = None
             /\ pc = "aborted"
             /\ err = <<"ValueError", "Expected n_neighbors <= n_samples_fit">>

\* C11 witness: the balancer has refused a table free of NaN whose minority
\* class has exactly k_neighbors rows.
C11_Witness ==
    /\ SmoteRan
    /\ ~HasNaN(X)
    /\ MinorityCount(y) = k_neighbors
    /\ X_smote = None
    /\ pc = "aborted"

\* C12 (as claimed): for a training table of 8 rows labelled 0 and 2 labelled
\* 1 the balancer yields 16 rows, 8 of each label, and the split that follows
\* puts them in two subsets in each of which the two labels differ by at most
\* one row.
C12_EightTwoBalancesToSixteen ==
    (SmoteRan /\ Count(y, 0) = 8 /\ Count(y, 1) = 2) =>
        /\ X_smote # None
        /\ NRows(X_smote) = 16
        /\ Count(y_smote, 0) = 8 /\ Count(y_smote, 1) = 8
        /\ pc # "split" =>
              /\ y_train # None /\ y_val # None
              /\ Count(y_train, 0) - Count(y_train, 1) \in {-1, 0, 1}
              /\ Count(y_val, 0) - Count(y_val, 1) \in {-1, 0, 1}

\* How many rows of (df, labels) are row r with label l.
CountPair(df, labels, r, l) ==
    Cardinality({i \in 1..NRows(df) : df.rows[i] = r /\ labels[i] = l})

\* C13: once the split has run, every balanced row with its label is in
\* exactly one of the two subsets (as often in the two together as in the
\* balanced table), the validation subset has a fifth of the rows, rounded
\* up, and in each subset the rows labelled 1 and the rows labelled 0 differ
\* by at most one.
C13_StratifiedPartition ==
    y_train # None =>
        /\ NRows(X_train) = Len(y_train)
        /\ NRows(X_val) = Len(y_val)
        /\ Len(y_train) + Len(y_val) = Len(y_smote)
        /\ 5 * Len(y_val) - Len(y_smote) \in 0..4
        /\ Count(y_train, 0) - Count(y_train, 1) \in {-1, 0, 1}
        /\ Count(y_val, 0) - Count(y_val, 1) \in {-1, 0, 1}
        /\ pc = "scale_train" =>
              \A i \in 1..NRows(X_smote) :
                  CountPair(X_smote, y_smote, X_smote.rows[i], y_smote[i])
                     = CountPair(X_train, y_train, X_smote.rows[i], y_smote[i])
                       + CountPair(X_val, y_val, X_smote.rows[i], y_smote[i])

\* C13 witness: the split has just run on a table the balancer added rows to,
\* and the validation subset has rows of both labels.
C13_Witness ==
    /\ pc = "scale_train"
    /\ y_train # None
    /\ NRows(X_smote) > NRows(X)
    /\ Count(y_val, 0) >= 1
    /\ Count(y_val, 1) >= 1

\* C14 (as claimed): a second run on the same files with the same libraries
\* gives the training table the derived features, age included, and the
\* encoder that the first run gave it, whenever each run is executed.
C14_RerunGivesSameFeatures ==
    (call # None /\ pc = "fe_test") =>
        /\ train = call.res.ret_df
        /\ encoders = call.res.ret_encoders

\* C15: for every row whose amt and city_pop are not negative, the divisor
\* city_pop + 1 is not zero and amt_per_capita is the quotient of amt by it, a
\* finite number that is not negative; so it is when city_pop is 0.
C15_AmtPerCapitaFiniteNonNegative ==
    pc = "called" =>
        /\ err = NoErr
        /\ NRows(train) = NRows(train_csv)
        /\ \A i \in 1..NRows(train_csv) :
              LET a == train_csv.rows[i]["amt"]
                  p == train_csv.rows[i]["city_pop"]
                  q == train.rows[i]["amt_per_capita"]
              IN  (a[1] >= 0 /\ p[1] >= 0) =>
                      /\ p[1] + p[2] # 0
                      /\ q # NaN
                      /\ q[2] > 0
                      /\ q[1] >= 0
                      /\ q[1] * a[2] * (p[1] + p[2]) = q[2] * a[1] * p[2]

\* C15 witness: the statement has run on a row with city_pop 0 and a
\* positive amt, and amt_per_capita is that amt.
C15_Witness ==
    /\ pc = "called"
    /\ \E i \in 1..NRows(train_csv) :
          /\ train_csv.rows[i]["city_pop"] = R(0)
          /\ train_csv.rows[i]["amt"][1] > 0
          /\ train.rows[i]["amt_per_capita"] = train_csv.rows[i]["amt"]

\* The statements of the notebook in the order of its cells.
StageOrder ==
    <<"load", "fe_train", "fe_test", "select", "smote", "split", "scale_train",
      "scale_val", "scale_test", "fit", "evaluate", "predict_test", "write",
      "done">>

\* A cell of (an already scaled) numeric column c is a standardized value.
IsScaled(sc, c, z) ==
    IF sc.var_[c] = R(0) THEN z = R(0)
    ELSE Len(z) = 3 /\ z[1] = "z" /\ z[3] = sc.var_[c]

\* C16: every step takes the run from one statement to the next in the order
\* feature engineering of train, of test, feature selection, balancing,
\* split, scaling, model fit, evaluation, prediction on test, submission, or
\* ends it on an exception; each result is written by its own stage alone,
\* so no stage reads what a later one produces; the model is fitted once, on
\* the training subset of the balanced table after the scaler has scaled it;
\* and evaluation, prediction and submission leave the encoder, the scaler
\* and the model as they were.
C16_StagesRunForward ==
    [][/\ pc' # pc =>
            \/ pc' = "aborted"
            \/ \E k \in 1..(Len(StageOrder) - 1) :
                  pc = StageOrder[k] /\ pc' = StageOrder[k + 1]
       /\ encoders' # encoders => pc = "fe_train"
       /\ (X' # X \/ y' # y) => pc = "select"
       /\ (X_smote' # X_smote \/ y_smote' # y_smote) => pc = "smote"
       /\ (y_train' # y_train \/ y_val' # y_val) => pc = "split"
       /\ X_train' # X_train => pc \in {"split", "scale_train"}
       /\ X_val' # X_val => pc \in {"split", "scale_val"}
       /\ X_test_submission' # X_test_submission => pc \in {"select", "scale_test"}
       /\ scaler' # scaler => pc = "scale_train"
       /\ y_pred' # y_pred => pc = "evaluate"
       /\ y_test_pred' # y_test_pred => pc = "predict_test"
       /\ submission_file' # submission_file => pc = "write"
       /\ model' # model =>
            /\ pc = "fit"
            /\ model = None
            /\ scaler # None
            /\ model'.feature_names_in_ = X_train.cols
            /\ Count(y_smote, 0) = Count(y_smote, 1)
            /\ NRows(X_train) = NTrainRows(NRows(X_smote))
            /\ \A i \in 1..NRows(X_train) : \A c \in Range(numeric_features) :
                  IsScaled(scaler, c, X_train.rows[i][c])
       /\ pc \in {"evaluate", "predict_test", "write"} =>
            /\ encoders' = encoders
            /\ scaler' = scaler
            /\ model' = model
      ]_vars

\* C16 witness: a run has gone through every stage and written the submission
\* with a fitted encoder, scaler and model.
C16_Witness ==
    /\ pc = "done"
    /\ encoders # None
    /\ scaler # None
    /\ model # None
    /\ y_pred # None
    /\ submission_file # None

\* train.csv has the columns of test.csv in the same order, and is_fraud.
SameRawColumns ==
    \E k \in 1..Len(train_csv.cols) :
        /\ train_csv.cols[k] = "is_fraud"
        /\ test_csv.cols
              = [j \in 1..(Len(train_csv.cols) - 1) |->
                    IF j < k THEN train_csv.cols[j] ELSE train_csv.cols[j + 1]]

\* C17: when train.csv has the columns of test.csv in the same order, and
\* is_fraud, the model once fitted finds in the validation subset and in the
\* test features the columns it was fitted on, in the same order, and no run
\* ends on the feature-names error of predict.
C17_PredictSchemaMatchesFit ==
    SameRawColumns =>
        /\ model # None =>
              /\ X_train.cols = model.feature_names_in_
              /\ X_val.cols = model.feature_names_in_
              /\ X_test_submission.cols = model.feature_names_in_
        /\ pc = "aborted" =>
              err # <<"ValueError",
                      "The feature names should match those that were passed during fit">>

\* C17 witness: on such files the model has predicted for the validation
\* subset and for the test set.
C17_Witness ==
    /\ SameRawColumns
    /\ model # None
    /\ y_pred # None
    /\ y_test_pred # None
    /\ Len(y_test_pred) = NRows(X_test_submission)

\* The ten columns the scaling step is to change, and the eleven it is to
\* leave alone.
ScaledCols ==
    {"amt", "lat", "long", "merch_lat", "merch_long", "city_pop",
     "amt_per_capita", "age", "hour", "distance"}

UnscaledCols ==
    {"trans_count", "amt_ratio", "day_of_week", "unix_time", "cc_num",
     "category", "gender", "job", "state", "city", "merchant"}

\* Table b is table a but for cells of the ten columns.
OnlyScaledColsChanged(a, b) ==
    /\ b.cols = a.cols
    /\ Range(a.cols) = ScaledCols \cup UnscaledCols
    /\ NRows(b) = NRows(a)
    /\ \A i \in 1..NRows(a) : \A c \in UnscaledCols :
          b.rows[i][c] = a.rows[i][c]

\* C18: each of the three scaling statements changes, in the one table it
\* scales, cells of the ten listed columns only: the table keeps its columns,
\* its rows in number and order and the cells of the eleven other columns;
\* the other two tables and the labels are left as they were.
C18_ScalingChangesTenColumnsOnly ==
    [][/\ pc = "scale_train" =>
            /\ OnlyScaledColsChanged(X_train, X_train')
            /\ X_val' = X_val
            /\ X_test_submission' = X_test_submission
       /\ pc = "scale_val" =>
            /\ OnlyScaledColsChanged(X_val, X_val')
            /\ X_train' = X_train
            /\ X_test_submission' = X_test_submission
       /\ pc = "scale_test" =>
            /\ OnlyScaledColsChanged(X_test_submission, X_test_submission')
            /\ X_train' = X_train
            /\ X_val' = X_val
       /\ pc \in {"scale_train", "scale_val", "scale_test"} =>
            y_train' = y_train /\ y_val' = y_val
      ]_vars

\* C18 witness: the three tables have been scaled; a training row has a
\* standardized amt and a trans_count of 1, 2 or 3.
C18_Witness ==
    /\ pc = "fit"
    /\ \E i \in 1..NRows(X_train) :
          /\ Len(X_train.rows[i]["amt"]) = 3
          /\ X_train.rows[i]["trans_count"] \in {R(1), R(2), R(3)}
    /\ \E i \in 1..NRows(X_test_submission) :
          Len(X_test_submission.rows[i]["amt"]) = 3

====
